---- MODULE Spec2Model ----
(***************************************************************************)
(* A model of src/converter.py: the Java-to-Node.js analyzer/converter.    *)
(*                                                                         *)
(* Five specifications share this module:                                  *)
(*   SpecCategorize  CodebaseScanner._categorize on bounded file names     *)
(*   SpecSelect      initialize_llm on every environment                   *)
(*   SpecExtract     JavaAnalyzer.analyze_file on one unit                 *)
(*   SpecConvert     CodeConverter.convert and _cleanup_code               *)
(*   Spec            main(): the analysis loop and the conversion loop     *)
(*                                                                         *)
(* Text is modelled as sequences (or sets) of tokens; a substring test is  *)
(* a test on the tokens, with the tokens that contain a needle listed in   *)
(* Needles.  The provider (LLM) and the file system are the environment:   *)
(* their answers are chosen nondeterministically from bounded pools.       *)
(***************************************************************************)
EXTENDS Integers, Sequences, FiniteSets, TLC

VARIABLES
    czName, czContent, czType,                  \* _categorize: inputs, result
    slProvider, slEnv, slOutcome, slResult,     \* initialize_llm: inputs, result
    exUnit,         \* analyze_file: the unit (file_info) being analyzed
    exChunks,       \* the number of chunks the splitter returned (0: not invoked)
    exResponses,    \* the provider's answer to each call, in call order
    exCalls,        \* the provider calls made, in order
    exRecord,       \* the UnitRecord returned
    cvCode, cvType, \* convert: java_code, module_type
    cvRun,          \* what the provider does during the call
    cvCalls,        \* the prompts sent to the provider, in order
    cvResult,       \* the text convert returned
    pc,                     \* main: where the run is
    args,                   \* the command line: stage, provider
    environ,                \* the credentials set, and what each client does
    provider,               \* the provider name initialize_llm returned
    defined,                \* the local names of main that are bound so far
    java_files,             \* the scanner's result
    modules,                \* the records of the analysis loop
    analysis_json,          \* <output_dir>/analysis.json
    modules_to_convert,     \* the modules loaded from analysis.json
    position,               \* the next module of the conversion loop
    converted_files,        \* the ConversionResults so far
    converted_dir,          \* the writes to <output_dir>/converted, in order
    conversions_json,       \* <output_dir>/conversions.json
    events,                 \* what the conversion loop did for each module
    error                   \* the exception that ended the run, if any

czVars == <<czName, czContent, czType>>
slVars == <<slProvider, slEnv, slOutcome, slResult>>
exVars == <<exUnit, exChunks, exResponses, exCalls, exRecord>>
mainVars == <<pc, args, environ, provider, defined, java_files, modules,
              analysis_json, modules_to_convert, position, converted_files,
              converted_dir, conversions_json, events, error>>
cvVars == <<cvCode, cvType, cvRun, cvCalls, cvResult>>
vars == <<czVars, slVars, exVars, cvVars, mainVars>>

\* A value standing for Python's None / "not computed yet".
None == "<none>"

(***************************************************************************)
(* Bounds                                                                  *)
(***************************************************************************)
\* Tokens of a file name before its ".java" extension.
MaxNameTokens == 2
\* Marker tokens in a file's content.
MaxMarkers == 2

(***************************************************************************)
(* Helpers on sequences                                                    *)
(***************************************************************************)
Range(s) == {s[i] : i \in 1..Len(s)}

SeqsUpTo(S, n) == UNION {[1..k -> S] : k \in 0..n}

Min(a, b) == IF a <= b THEN a ELSE b

(***************************************************************************)
(* CodebaseScanner._categorize                                             *)
(***************************************************************************)
Ext == ".java"

\* Tokens a file name is made of, and the annotations a content may hold.
NameTokens == {"User", "Controller", "Service", "Repository", "DAO", "Model",
               "Entity", "DTO", "Config", "Configuration", "Exception"}
ContentTokens == {"code", "@Controller", "@RestController", "@ControllerAdvice",
                  "@Service", "@Repository", "@Entity", "@Configuration",
                  "@Component", "@ComponentScan"}

\* The needles of _categorize that occur in a token as a substring.
Needles(tok) ==
    CASE tok = "Configuration"     -> {"Configuration", "Config"}
      [] tok = "@ControllerAdvice" -> {"@ControllerAdvice", "@Controller", "Controller"}
      [] tok = "@RestController"   -> {"@RestController", "Controller"}
      [] tok = "@Controller"       -> {"@Controller", "Controller"}
      [] tok = "@Service"          -> {"@Service", "Service"}
      [] tok = "@Repository"       -> {"@Repository", "Repository"}
      [] tok = "@Entity"           -> {"@Entity", "Entity"}
      [] tok = "@Configuration"    -> {"@Configuration", "Configuration", "Config"}
      [] tok = "@ComponentScan"    -> {"@ComponentScan", "@Component"}
      [] OTHER                     -> {tok}

\* Python's `needle in text`, text a collection of tokens.
In(needle, toks) == \E t \in toks : needle \in Needles(t)

\* A mutant: the Model rule is tested before the Controller rule.
CategorizeSwapped(filename, content) ==
    LET f == Range(filename) IN
    IF In("Model", f) \/ In("Entity", f) \/ In("@Entity", content) THEN "Model"
    ELSE IF In("Controller", f) \/ In("@Controller", content)
            \/ In("@RestController", content) THEN "Controller"
    ELSE IF In("Service", f) \/ In("@Service", content) THEN "Service"
    ELSE IF In("Repository", f) \/ In("DAO", f) \/ In("@Repository", content) THEN "DAO"
    ELSE IF In("DTO", f) THEN "DTO"
    ELSE IF In("Config", f) \/ In("@Configuration", content) THEN "Configuration"
    ELSE IF In("Exception", f) THEN "Exception"
    ELSE IF In("@Component", content) THEN "Component"
    ELSE "Util"

\* The if/elif chain of _categorize, in source order.
Categorize(filename, content) ==
    LET f == Range(filename) IN
    IF In("Controller", f) \/ In("@Controller", content)
       \/ In("@RestController", content) THEN "Controller"
    ELSE IF In("Service", f) \/ In("@Service", content) THEN "Service"
    ELSE IF In("Repository", f) \/ In("DAO", f) \/ In("@Repository", content) THEN "DAO"
    ELSE IF In("Model", f) \/ In("Entity", f) \/ In("@Entity", content) THEN "Model"
    ELSE IF In("DTO", f) THEN "DTO"
    ELSE IF In("Config", f) \/ In("@Configuration", content) THEN "Configuration"
    ELSE IF In("Exception", f) THEN "Exception"
    ELSE IF In("@Component", content) THEN "Component"
    ELSE "Util"

\* The file names the scanner passes on: they end in ".java" (line 196).
FileNames == {n \o <<Ext>> : n \in SeqsUpTo(NameTokens, MaxNameTokens)}
Contents == {c \in SUBSET ContentTokens : Cardinality(c) <= MaxMarkers}

CzIdle == czName = <<>> /\ czContent = {} /\ czType = None

CzInit ==
    /\ czName \in FileNames
    /\ czContent \in Contents
    /\ czType = None

CzCategorize ==
    /\ czType = None
    /\ czType' = Categorize(czName, czContent)
    /\ UNCHANGED <<czName, czContent>>

(***************************************************************************)
(* initialize_llm                                                          *)
(***************************************************************************)
\* An environment variable is unset, set to the empty string, or set.
EnvValues == {"unset", "empty", "set"}
EnvNames == {"GOOGLE_API_KEY", "GEMINI_API_KEY", "ANTHROPIC_API_KEY", "OPENAI_API_KEY"}

\* os.getenv(k) is truthy
Truthy(env, k) == env[k] = "set"

\* What constructing a provider's client does once its key is found.  The
\* Gemini import cannot fail: the module is imported at load time (line 27).
ClientOutcomes(name) ==
    IF name = "Gemini" THEN {"ok", "error"} ELSE {"ok", "import_error", "error"}

ProviderNames == {"Gemini", "Anthropic", "OpenAI"}

\* The result of a call: a return of (llm, name) or a raised exception.
\* `llm` names the provider whose client was built; `about` is the provider
\* string embedded in the exception's message, `keys` the variables it lists.
Returned(llm, name) ==
    [kind |-> "return", llm |-> llm, name |-> name, exc |-> None, msg |-> None,
     about |-> None, keys |-> {}]
NotCalled ==
    [kind |-> "none", llm |-> None, name |-> None, exc |-> None, msg |-> None,
     about |-> None, keys |-> {}]
Raised(exc, msg, about, keys) ==
    [kind |-> "raise", llm |-> None, name |-> None, exc |-> exc, msg |-> msg,
     about |-> about, keys |-> keys]

\* init_gemini / init_anthropic / init_openai: (llm, name), (None, None), or raise.
InitProvider(name, env, outcome) ==
    LET key == CASE name = "Gemini" ->
                       Truthy(env, "GOOGLE_API_KEY") \/ Truthy(env, "GEMINI_API_KEY")
                 [] name = "Anthropic" -> Truthy(env, "ANTHROPIC_API_KEY")
                 [] name = "OpenAI" -> Truthy(env, "OPENAI_API_KEY")
    IN  IF ~key THEN Returned(None, None)
        ELSE IF outcome[name] = "ok" THEN Returned(name, name)
        ELSE IF outcome[name] = "import_error"
             THEN Raised("ImportError", "import", None, {})
        ELSE Raised("Exception", "client", None, {})

\* The explicit branch (lines 105-123).
ExplicitProvider(requested, env, outcome) ==
    LET target == CASE requested = "google" -> "Gemini"
                    [] requested = "anthropic" -> "Anthropic"
                    [] requested = "openai" -> "OpenAI"
                    [] OTHER -> None
        r == IF target = None
             THEN Raised("ValueError", "Unsupported provider", requested, {})
             ELSE InitProvider(target, env, outcome)
        body == IF r.kind = "raise" THEN r
                ELSE IF r.llm # None THEN r
                ELSE Raised("ValueError", "API key not found", requested, {})
    IN  IF body.kind = "return" THEN body
        ELSE IF body.exc = "ImportError"
             THEN Raised("ValueError", "Missing dependency", requested, {})
        ELSE Raised("ValueError", "Initialization failed", requested, {})

\* The fallback branch (lines 126-139): no try/except around the candidates.
FallbackOrder == <<"Gemini", "Anthropic", "OpenAI">>

RECURSIVE TryInOrder(_, _, _)
TryInOrder(i, env, outcome) ==
    IF i > Len(FallbackOrder)
    THEN Raised("ValueError", "No valid API key found", None,
                {"GOOGLE_API_KEY", "ANTHROPIC_API_KEY", "OPENAI_API_KEY"})
    ELSE LET r == InitProvider(FallbackOrder[i], env, outcome) IN
         IF r.kind = "raise" THEN r
         ELSE IF r.llm # None THEN r
         ELSE TryInOrder(i + 1, env, outcome)

\* A mutant: an explicit provider without a key falls back to the others.
InitializeLlmSilentFallback(requested, env, outcome) ==
    IF requested # None /\ requested # ""
    THEN LET r == ExplicitProvider(requested, env, outcome) IN
         IF r.kind = "raise" /\ r.msg = "Initialization failed"
         THEN TryInOrder(1, env, outcome)
         ELSE r
    ELSE TryInOrder(1, env, outcome)

\* initialize_llm(provider): `if provider:` is false for None and for "".
InitializeLlm(requested, env, outcome) ==
    IF requested # None /\ requested # ""
    THEN ExplicitProvider(requested, env, outcome)
    ELSE TryInOrder(1, env, outcome)

ProviderArgs == {None, "", "google", "anthropic", "openai", "azure"}
Envs == [EnvNames -> EnvValues]
Outcomes == {o \in [ProviderNames -> {"ok", "import_error", "error"}] :
                \A n \in ProviderNames : o[n] \in ClientOutcomes(n)}

SlIdle == slProvider = None /\ slEnv = <<>> /\ slOutcome = <<>> /\ slResult = NotCalled

SlInit ==
    /\ slProvider \in ProviderArgs
    /\ slEnv \in Envs
    /\ slOutcome \in Outcomes
    /\ slResult = NotCalled

SlInitializeLlm ==
    /\ slResult = NotCalled
    /\ slResult' = InitializeLlm(slProvider, slEnv, slOutcome)
    /\ UNCHANGED <<slProvider, slEnv, slOutcome>>

(***************************************************************************)
(* JavaAnalyzer.analyze_file and _analyze_large_file                       *)
(***************************************************************************)
\* len(content) above which a file is analyzed in chunks (line 321).
LargeFileThreshold == 10000
\* chunks[:5] (line 396)
MaxChunksAnalyzed == 5
\* chunk_size of the splitter (line 272)
ChunkSize == 8000
\* The most chunks the splitter is taken to return.
MaxChunks == 6
\* The most files a scan finds.
MaxUnits == 2
\* The most tokens of a Stage-B response.
MaxRawLen == 5

\* file_info['name'].replace('.java', ''): every occurrence is removed.
StripJava(name) == SelectSeq(name, LAMBDA t : t # Ext)

\* The file name without its extension (its last token).
Stem(name) == SubSeq(name, 1, Len(name) - 1)

\* A method as the provider describes it.  `complete` says that name,
\* signature and description are present and strings; `complexity` is None
\* when the key is missing.
Complexities == {"Low", "Medium", "High"}
MethodOf(n, c, ok) == [name |-> n, complexity |-> c, complete |-> ok]

\* A JSON value of a response: is the key present, is the value of the
\* expected Python type (a list, a str), and its items.
Absent == [present |-> FALSE, typed |-> FALSE, items |-> <<>>]
Value(items) == [present |-> TRUE, typed |-> TRUE, items |-> items]
Untyped == [present |-> TRUE, typed |-> FALSE, items |-> <<>>]

\* A dependency that json.loads returns as a list or a dict: not hashable.
Unhashable == "<unhashable>"

\* A provider response: the call raises, or returns text with no "{...}" in
\* it, or text whose "{...}" is not JSON, or text holding a JSON object.
Response(kind, description, methods, dependencies) ==
    [kind |-> kind, description |-> description, methods |-> methods,
     dependencies |-> dependencies]
RaiseResponse == Response("raise", Absent, Absent, Absent)
ProseResponse == Response("prose", Absent, Absent, Absent)
BadJsonResponse == Response("badjson", Absent, Absent, Absent)

Responses ==
    { RaiseResponse, ProseResponse, BadJsonResponse,
      \* a complete, valid module
      Response("json", Value(<<"d1">>), Value(<<MethodOf("m1", "Low", TRUE)>>),
               Value(<<"java.util">>)),
      \* a complexity outside the three values
      Response("json", Value(<<"d2">>), Value(<<MethodOf("m2", "Extreme", TRUE)>>),
               Value(<<"java.io">>)),
      \* a dependency list holding an unhashable item after a hashable one
      Response("json", Value(<<"d1">>), Value(<<MethodOf("m1", "High", TRUE)>>),
               Value(<<"java.io", Unhashable>>)),
      \* a description that is not a string; a method with no complexity
      Response("json", Untyped, Value(<<MethodOf("m2", None, TRUE)>>), Absent),
      \* no methods at all, no dependencies key
      Response("json", Value(<<"d2">>), Value(<<>>), Absent),
      \* methods: null
      Response("json", Value(<<"d1">>), Untyped, Value(<<"java.util">>)) }

DescAnalysisUnavailable == <<"Analysis unavailable">>
DescLargeModule == <<"Large module with multiple components">>

UnitRecord(unit, description, methods, dependencies) ==
    [name |-> StripJava(unit.name), description |-> description,
     methods |-> methods, dependencies |-> dependencies,
     linesOfCode |-> unit.loc, filePath |-> unit.path, type |-> unit.type]

\* A mutant: the fallback record loses the file's line count.
DegradedRecordNoLoc(unit) ==
    [UnitRecord(unit, DescAnalysisUnavailable, <<>>, <<>>) EXCEPT !.linesOfCode = 0]

\* The except branch of analyze_file (lines 357-368).
DegradedRecord(unit) == UnitRecord(unit, DescAnalysisUnavailable, <<>>, <<>>)

\* A mutant: the threshold itself counts as large.
IsLargeFileInclusive(unit) == unit.contentLen >= LargeFileThreshold

\* len(file_info['content']) > 10000
IsLargeFile(unit) == unit.contentLen > LargeFileThreshold

\* PydanticOutputParser.parse against Module and Method (lines 146-164):
\* TRUE when the response parses and validates.
ValidMethod(m) == m.complete /\ m.complexity \in Complexities
ValidModule(r) ==
    /\ r.kind = "json"
    /\ r.description.present /\ r.description.typed
    /\ r.methods.present /\ r.methods.typed
    /\ \A i \in 1..Len(r.methods.items) : ValidMethod(r.methods.items[i])
    /\ r.dependencies.present =>
         /\ r.dependencies.typed
         /\ \A i \in 1..Len(r.dependencies.items) : r.dependencies.items[i] # Unhashable

\* The whole-content path (lines 324-355) on the provider's response r.
AnalyzeWhole(unit, r) ==
    IF r.kind = "raise" \/ ~ValidModule(r) THEN DegradedRecord(unit)
    ELSE UnitRecord(unit, r.description.items, r.methods.items,
                    IF r.dependencies.present THEN r.dependencies.items ELSE <<>>)

\* A mutant: every chunk is analyzed.
ChunksAnalyzedAll(n) == n

\* chunks[:5]: the number of chunks that are analyzed.
ChunksAnalyzed(n) == Min(n, MaxChunksAnalyzed)

\* The items of a dependency list before its first unhashable item.
RECURSIVE HashablePrefix(_)
HashablePrefix(items) ==
    IF items = <<>> \/ Head(items) = Unhashable THEN <<>>
    ELSE <<Head(items)>> \o HashablePrefix(Tail(items))

\* One pass of the loop body (lines 397-424) on the response r to a chunk:
\* acc is (all_methods, all_dependencies, descriptions).  An exception at
\* any statement ends the pass and keeps what the earlier statements did.
MergeChunk(acc, r) ==
    IF r.kind # "json" THEN acc
    ELSE IF r.methods.present /\ ~r.methods.typed THEN acc
    ELSE
      LET a1 == [acc EXCEPT !.methods =
                    IF r.methods.present THEN @ \o r.methods.items ELSE @]
      IN  IF r.dependencies.present /\ ~r.dependencies.typed THEN a1
          ELSE
            LET d == r.dependencies
                a2 == [a1 EXCEPT !.deps =
                          IF d.present THEN @ \cup Range(HashablePrefix(d.items)) ELSE @]
            IN  IF d.present /\ Unhashable \in Range(d.items) THEN a2
                ELSE IF r.description.present
                     THEN [a2 EXCEPT !.descs = Append(@, r.description)]
                     ELSE a2

EmptyAcc == [methods |-> <<>>, deps |-> {}, descs |-> <<>>]

\* The loop over the first k chunks, rs[i] the response to chunk i.
RECURSIVE MergeChunks(_, _)
MergeChunks(k, rs) ==
    IF k = 0 THEN EmptyAcc ELSE MergeChunk(MergeChunks(k - 1, rs), rs[k])

\* " ".join(descriptions): the parts in order; raises on a non-string part.
RECURSIVE JoinDescriptions(_)
JoinDescriptions(descs) ==
    IF descs = <<>> THEN <<>>
    ELSE Head(descs).items \o JoinDescriptions(Tail(descs))

\* The orders list(all_dependencies) may give a set.
Orderings(S) == {o \in [1..Cardinality(S) -> S] : Range(o) = S}

\* _analyze_large_file (lines 380-435) within analyze_file's try: n chunks
\* from the splitter, rs the responses, order the order of list(set).
AnalyzeLarge(unit, n, rs, order) ==
    LET acc == MergeChunks(ChunksAnalyzed(n), rs) IN
    IF \E i \in 1..Len(acc.descs) : ~acc.descs[i].typed
    THEN DegradedRecord(unit)
    ELSE UnitRecord(unit,
                    IF acc.descs # <<>> THEN JoinDescriptions(acc.descs)
                    ELSE DescLargeModule,
                    acc.methods, order)

\* analyze_file: n is 0 when the splitter is not invoked.
AnalyzeFile(unit, n, rs, order) ==
    IF IsLargeFile(unit) THEN AnalyzeLarge(unit, n, rs, order)
    ELSE AnalyzeWhole(unit, rs[1])

\* The provider calls analyze_file makes.
WholeCall == [kind |-> "whole", chunk |-> 0]
ChunkCall(i) == [kind |-> "chunk", chunk |-> i]
CallsOf(unit, n) ==
    IF IsLargeFile(unit) THEN [i \in 1..ChunksAnalyzed(n) |-> ChunkCall(i)]
    ELSE <<WholeCall>>

\* The fewest chunks of at most ChunkSize characters that cover a content.
MinChunks(len) == (len + ChunkSize - 1) \div ChunkSize

\* The chunk counts the splitter may return for a unit, the response
\* sequences the provider may give, the orders of the dependency list.
ChunkCounts(unit) ==
    IF IsLargeFile(unit) THEN MinChunks(unit.contentLen)..MaxChunks ELSE {0}
ResponseSeqs(unit, n, pool) ==
    IF IsLargeFile(unit) THEN [1..ChunksAnalyzed(n) -> pool] ELSE [1..1 -> pool]
DependencyOrders(unit, n, rs) ==
    IF IsLargeFile(unit) THEN Orderings(MergeChunks(ChunksAnalyzed(n), rs).deps)
    ELSE {<<>>}

\* A scanned file (lines 203-209): its type is what _categorize gives it.
Unit(path, name, markers, contentLen, loc) ==
    [path |-> path, name |-> name, contentLen |-> contentLen,
     type |-> Categorize(name, markers), loc |-> loc]

ExtractUnits ==
    { Unit("src/UserController.java", <<"User", "Controller", Ext>>, {"code"}, 0, 1),
      Unit("src/User.java", <<"User", Ext>>, {"@Entity"},
           LargeFileThreshold - 1, 40),
      Unit("src/Config.java.java", <<"Config", Ext, Ext>>, {"code"},
           LargeFileThreshold, 300),
      Unit("src/Order.javaService.java", <<"User", Ext, "Service", Ext>>, {"@Service"},
           LargeFileThreshold + 1, 1),
      Unit("src/BigDAO.java", <<"DAO", Ext>>, {"@Repository"},
           2 * LargeFileThreshold, 500) }

NoUnit == [path |-> None, name |-> <<>>, contentLen |-> 0, type |-> None, loc |-> 0]
NoRecord == [name |-> <<>>, description |-> <<>>, methods |-> <<>>,
             dependencies |-> <<>>, linesOfCode |-> 0, filePath |-> None,
             type |-> None]

ExIdle ==
    /\ exUnit = NoUnit /\ exChunks = 0 /\ exResponses = <<>>
    /\ exCalls = <<>> /\ exRecord = NoRecord

ExInit ==
    /\ exUnit \in ExtractUnits
    /\ exChunks = 0 /\ exResponses = <<>> /\ exCalls = <<>> /\ exRecord = NoRecord

ExAnalyzeFile ==
    /\ exRecord = NoRecord
    /\ \E n \in ChunkCounts(exUnit) :
       \E rs \in ResponseSeqs(exUnit, n, Responses) :
       \E order \in DependencyOrders(exUnit, n, rs) :
          /\ exChunks' = n
          /\ exResponses' = rs
          /\ exCalls' = CallsOf(exUnit, n)
          /\ exRecord' = AnalyzeFile(exUnit, n, rs, order)
    /\ UNCHANGED exUnit

(***************************************************************************)
(* CodeConverter.convert and _cleanup_code                                 *)
(***************************************************************************)
\* str(e)[:100] in the warning convert prints (line 575).
ErrorLogLimit == 100

\* The triple-backquote delimiter of a fenced block.
Fence == "<fence>"
Whitespace == {" ", "\n"}

\* str.strip() on a token sequence.
RECURSIVE LStrip(_)
LStrip(t) == IF t # <<>> /\ Head(t) \in Whitespace THEN LStrip(Tail(t)) ELSE t
RECURSIVE RStrip(_)
RStrip(t) ==
    IF t # <<>> /\ t[Len(t)] \in Whitespace THEN RStrip(SubSeq(t, 1, Len(t) - 1)) ELSE t
Strip(t) == RStrip(LStrip(t))

\* A mutant: group 2 is returned as matched, not stripped.
CleanupCodeUnstripped(raw) ==
    LET fences == {i \in 1..Len(raw) : raw[i] = Fence} IN
    IF Cardinality(fences) < 2 THEN raw
    ELSE LET open == CHOOSE i \in fences : \A j \in fences : i <= j
             close == CHOOSE i \in fences \ {open} : \A j \in fences \ {open} : i <= j
             start == IF raw[open + 1] = "javascript" THEN open + 2 ELSE open + 1
         IN  SubSeq(raw, start, close - 1)

\* re.search of fence, optional javascript, lazy body, fence (line 593): the
\* leftmost fence that a later fence closes; group 2 runs to the first fence
\* after it and is stripped.
CleanupCode(raw) ==
    LET fences == {i \in 1..Len(raw) : raw[i] = Fence} IN
    IF Cardinality(fences) < 2 THEN raw
    ELSE LET open == CHOOSE i \in fences : \A j \in fences : i <= j
             close == CHOOSE i \in fences \ {open} : \A j \in fences \ {open} : i <= j
             start == IF raw[open + 1] = "javascript" THEN open + 2 ELSE open + 1
         IN  Strip(SubSeq(raw, start, close - 1))

\* What convert returns: the cleaned code, or the stub of the except branch
\* with the category and all of str(e), errLen characters long.
Code(body) == [kind |-> "code", category |-> None, errLen |-> 0, body |-> body]
Stub(category, errLen) ==
    [kind |-> "stub", category |-> category, errLen |-> errLen, body |-> <<>>]

\* What the provider does during one convert: Stage A raises, or Stage B
\* raises, with a message of errLen characters, or both return and `raw` is
\* the Stage-B text.
ProviderRun(a, b, errLen, raw) == [a |-> a, b |-> b, errLen |-> errLen, raw |-> raw]

\* convert (lines 565-576)
Convert(module_type, run) ==
    IF run.a = "raise" \/ run.b = "raise" THEN Stub(module_type, run.errLen)
    ELSE Code(CleanupCode(run.raw))

\* The length of the error text in the warning convert prints: only there
\* is the message cut.
ConvertWarning(run) == Min(run.errLen, ErrorLogLimit)

\* The provider calls of the conversion chain (lines 531-538): Stage B is
\* reached only when Stage A returned.
ConvertCalls(run) == IF run.a = "raise" THEN <<"stageA">> ELSE <<"stageA", "stageB">>

\* framework_map.get(module_type, "Node.js patterns") (lines 553-570)
FrameworkHint(module_type) ==
    CASE module_type = "Controller" -> "Express.js with routing and middleware"
      [] module_type = "Service" -> "ES6 class with business logic"
      [] module_type = "DAO" -> "Sequelize ORM for database access"
      [] module_type = "Model" -> "ES6 class for data structure"
      [] module_type = "DTO" -> "Plain JavaScript object for data transfer"
      [] module_type = "Configuration" -> "Module exporting configuration objects"
      [] module_type = "Exception" -> "Custom Error class"
      [] module_type = "Component" -> "ES6 module or class"
      [] module_type = "Util" -> "Collection of utility functions"
      [] OTHER -> "Node.js patterns"

\* The two prompts of the chain (lines 496-528), by the values they embed.
StructurePrompt(module_type, java_code) ==
    [template |-> "structure", structure |-> None, module_type |-> module_type,
     java_code |-> java_code, framework |-> None]
ConversionPrompt(structure, module_type, java_code, framework) ==
    [template |-> "conversion", structure |-> structure, module_type |-> module_type,
     java_code |-> java_code, framework |-> framework]

\* A mutant: the conversion prompt is sent whether or not Stage A returned.
ConvertPromptsUnchained(java_code, module_type, run) ==
    <<StructurePrompt(module_type, java_code),
      ConversionPrompt(run.structure, module_type, java_code,
                       FrameworkHint(module_type))>>

\* The prompts conversion_chain.invoke sends (lines 531-538, 567-571):
\* RunnablePassthrough.assign runs Stage A first and adds its output as
\* `structure`; the conversion prompt is built from the result.
ConvertPrompts(java_code, module_type, run) ==
    IF run.a = "raise" THEN <<StructurePrompt(module_type, java_code)>>
    ELSE <<StructurePrompt(module_type, java_code),
           ConversionPrompt(run.structure, module_type, java_code,
                            FrameworkHint(module_type))>>

\* A provider behaviour with the text Stage A returns.
ChainRun(a, b, errLen, structure, raw) ==
    [a |-> a, b |-> b, errLen |-> errLen, structure |-> structure, raw |-> raw]

\* The inputs of a convert call: the types _categorize gives and one it
\* does not, the Stage-A texts, the Stage-B texts.
ModuleTypes == {"Controller", "Service", "DAO", "Model", "DTO", "Configuration",
                "Exception", "Component", "Util", "Widget"}
RawTokens == {Fence, "javascript", "js", "\n", "code"}
RawTexts == SeqsUpTo(RawTokens, MaxRawLen)
Structures == {"structure 1", "structure 2"}
ChainRuns ==
    {ChainRun("raise", "ok", 40, None, <<>>)}
    \cup {ChainRun("ok", "raise", 101, st, <<>>) : st \in Structures}
    \cup {ChainRun("ok", "ok", 0, st, raw) : st \in Structures, raw \in RawTexts}

NoRun == ChainRun(None, None, 0, None, <<>>)
NoResult == [kind |-> None, category |-> None, errLen |-> 0, body |-> <<>>]

CvIdle ==
    /\ cvCode = None /\ cvType = None /\ cvRun = NoRun /\ cvCalls = <<>>
    /\ cvResult = NoResult

CvInit ==
    /\ cvCode = "class A {}"
    /\ cvType \in ModuleTypes
    /\ cvRun = NoRun /\ cvCalls = <<>> /\ cvResult = NoResult

CvConvert ==
    /\ cvResult = NoResult
    /\ \E run \in ChainRuns :
          /\ cvRun' = run
          /\ cvCalls' = ConvertPrompts(cvCode, cvType, run)
          /\ cvResult' = Convert(cvType, run)
    /\ UNCHANGED <<cvCode, cvType>>

(***************************************************************************)
(* main                                                                    *)
(***************************************************************************)
NoFile == [exists |-> FALSE, projectOverview |-> None, modules |-> <<>>,
           llmProvider |-> None, totalFiles |-> 0]
AnalysisFile(overview, ms, name, n) ==
    [exists |-> TRUE, projectOverview |-> overview, modules |-> ms,
     llmProvider |-> name, totalFiles |-> n]

NoManifest == [exists |-> FALSE, complete |-> FALSE, llmProvider |-> None,
               conversions |-> <<>>]
\* open(..., 'w') has run and json.dump has not.
EmptyManifest == [exists |-> TRUE, complete |-> FALSE, llmProvider |-> None,
                  conversions |-> <<>>]
\* A mutant: the manifest lists the conversions latest first.
ManifestLatestFirst(name, conversions) ==
    [exists |-> TRUE, complete |-> TRUE, llmProvider |-> name,
     conversions |-> [j \in 1..Len(conversions) |->
                         conversions[Len(conversions) + 1 - j]]]

\* Lines 727-732: the content of conversions.json.
Manifest(name, conversions) ==
    [exists |-> TRUE, complete |-> TRUE, llmProvider |-> name,
     conversions |-> conversions]

\* The files a scan may find, in scanner order.
MainUnits ==
    { Unit("src/UserController.java", <<"User", "Controller", Ext>>, {"@Entity"}, 120, 9),
      Unit("src/model/User.java", <<"User", Ext>>, {"@Entity"}, LargeFileThreshold, 300),
      Unit("src/OrderService.java", <<"Service", Ext>>, {"@Service"},
           LargeFileThreshold + 1, 310) }
FileLists ==
    {f \in SeqsUpTo(MainUnits, MaxUnits) :
        \A i, j \in 1..Len(f) : i # j => f[i].path # f[j].path}

\* What the provider answers during a run of main, and the chunk counts of
\* the splitter there.
MainResponses ==
    {r \in Responses : \/ r.kind = "raise"
                       \/ r.kind = "json" /\ r.description = Value(<<"d1">>)
                          /\ r.methods.typed /\ r.dependencies = Value(<<"java.util">>)
                       \/ r.kind = "json" /\ r.description = Value(<<"d2">>)
                          /\ r.dependencies.present}
MainChunkCounts(unit) == IF IsLargeFile(unit) THEN {MinChunks(unit.contentLen)} ELSE {0}

\* Every record analyze_file may return for a unit during a run of main.
MainRecords(unit) ==
    UNION { UNION { {AnalyzeFile(unit, n, rs, order) :
                        order \in DependencyOrders(unit, n, rs)} :
                    rs \in ResponseSeqs(unit, n, MainResponses)} :
            n \in MainChunkCounts(unit)}

\* The analysis.json files an earlier analyze run may have left.
PriorArtifacts ==
    UNION { {AnalysisFile("overview", ms, "Anthropic", Len(f)) :
                ms \in {m \in [1..Len(f) -> UNION {MainRecords(u) : u \in MainUnits}] :
                           \A i \in 1..Len(f) : m[i] \in MainRecords(f[i])}} :
            f \in FileLists \ {<<>>}}

\* Stage-B texts and provider behaviours of a conversion.
RawResponses ==
    { <<Fence, "javascript", "\n", "code", "\n", Fence>>,
      <<"prose", Fence, "js", "\n", "code", Fence, "prose">> }
ProviderRuns ==
    {ProviderRun("raise", "ok", 40, <<>>), ProviderRun("ok", "raise", 101, <<>>)}
    \cup {ProviderRun("ok", "ok", 0, raw) : raw \in RawResponses}

\* The command lines and environments of a run.
Stages == {None, "analyze", "convert"}
OnlyKey(k) == [n \in EnvNames |-> IF n = k THEN "set" ELSE "unset"]
AllOk == [n \in ProviderNames |-> "ok"]
Environs ==
    { [provider |-> None, env |-> OnlyKey("ANTHROPIC_API_KEY"), outcome |-> AllOk],
      [provider |-> "google", env |-> OnlyKey("ANTHROPIC_API_KEY"), outcome |-> AllOk],
      [provider |-> None, env |-> OnlyKey("GEMINI_API_KEY"),
       outcome |-> [AllOk EXCEPT !["Gemini"] = "error"]] }

Event(i, kind) == [module |-> i, kind |-> kind]

MainIdle ==
    /\ pc = "idle" /\ args = [stage |-> None] /\ environ = <<>> /\ provider = None
    /\ defined = {} /\ java_files = <<>> /\ modules = <<>> /\ analysis_json = NoFile
    /\ modules_to_convert = <<>> /\ position = 0 /\ converted_files = <<>>
    /\ converted_dir = <<>> /\ conversions_json = NoManifest /\ events = <<>>
    /\ error = None

MainInit ==
    /\ pc = "start"
    /\ args \in [stage : Stages]
    /\ environ \in Environs
    /\ analysis_json \in IF args.stage = "convert" THEN {NoFile} \cup PriorArtifacts
                         ELSE {NoFile}
    /\ provider = None /\ defined = {} /\ java_files = <<>> /\ modules = <<>>
    /\ modules_to_convert = <<>> /\ position = 0 /\ converted_files = <<>>
    /\ converted_dir = <<>> /\ conversions_json = NoManifest /\ events = <<>>
    /\ error = None

\* Lines 629-635: a ValueError is reported and main returns; any other
\* exception leaves main.
InitializeProvider ==
    /\ pc = "start"
    /\ LET r == InitializeLlm(environ.provider, environ.env, environ.outcome) IN
       /\ provider' = r.name
       /\ error' = IF r.kind = "raise" /\ r.exc # "ValueError" THEN r.exc ELSE None
       /\ pc' = IF r.kind = "raise"
                THEN IF r.exc = "ValueError" THEN "returned" ELSE "crashed"
                ELSE IF args.stage = "convert" THEN "load" ELSE "scan"
    /\ UNCHANGED <<args, environ, defined, java_files, modules, analysis_json,
                   modules_to_convert, position, converted_files, converted_dir,
                   conversions_json, events>>

\* Lines 637-649: the scan, and the return on an empty scan.
Scan ==
    /\ pc = "scan"
    /\ \E files \in FileLists :
          /\ java_files' = files
          /\ IF files = <<>>
             THEN pc' = "returned" /\ UNCHANGED defined
             ELSE pc' = "analyze" /\ defined' = defined \cup {"modules"}
    /\ modules' = <<>>
    /\ UNCHANGED <<args, environ, provider, analysis_json, modules_to_convert,
                   position, converted_files, converted_dir, conversions_json,
                   events, error>>

\* A mutant: analyze_file without its try/except; a failed analysis ends
\* the run.
AnalyzeNextFileUncaught ==
    /\ pc = "analyze"
    /\ LET unit == java_files[Len(modules) + 1] IN
       \E n \in MainChunkCounts(unit) :
       \E rs \in ResponseSeqs(unit, n, MainResponses) :
       \E order \in DependencyOrders(unit, n, rs) :
          LET module == AnalyzeFile(unit, n, rs, order) IN
          IF module = DegradedRecord(unit)
          THEN pc' = "crashed" /\ error' = "Exception" /\ UNCHANGED modules
          ELSE /\ modules' = Append(modules, module)
               /\ pc' = IF Len(modules) + 1 = Len(java_files)
                        THEN "overview" ELSE "analyze"
               /\ UNCHANGED error
    /\ UNCHANGED <<args, environ, provider, defined, java_files, analysis_json,
                   modules_to_convert, position, converted_files, converted_dir,
                   conversions_json, events>>

\* Lines 651-654: one pass of the analysis loop.
AnalyzeNextFile ==
    /\ pc = "analyze"
    /\ LET unit == java_files[Len(modules) + 1] IN
       \E n \in MainChunkCounts(unit) :
       \E rs \in ResponseSeqs(unit, n, MainResponses) :
       \E order \in DependencyOrders(unit, n, rs) :
          modules' = Append(modules, AnalyzeFile(unit, n, rs, order))
    /\ pc' = IF Len(modules) + 1 = Len(java_files) THEN "overview" ELSE "analyze"
    /\ UNCHANGED <<args, environ, provider, defined, java_files, analysis_json,
                   modules_to_convert, position, converted_files, converted_dir,
                   conversions_json, events, error>>

\* Lines 656-675: generate_overview, which falls back to a fixed sentence
\* when the provider raises, and the write of analysis.json.
SaveAnalysis ==
    /\ pc = "overview"
    /\ \E overview \in {"overview", "A Java application with a layered architecture"} :
          analysis_json' = AnalysisFile(overview, modules, provider, Len(java_files))
    /\ pc' = IF args.stage = "analyze" THEN "manifest" ELSE "load"
    /\ UNCHANGED <<args, environ, provider, defined, java_files, modules,
                   modules_to_convert, position, converted_files, converted_dir,
                   conversions_json, events, error>>

\* Lines 677-696: the load of analysis.json, or the return when it is missing.
LoadAnalysis ==
    /\ pc = "load"
    /\ IF ~analysis_json.exists
       THEN /\ pc' = "returned"
            /\ UNCHANGED <<modules_to_convert, position, defined>>
       ELSE /\ modules_to_convert' = analysis_json.modules
            /\ position' = 1
            /\ defined' = defined \cup {"converted_files"}
            /\ pc' = IF analysis_json.modules = <<>> THEN "manifest" ELSE "convert"
    /\ converted_files' = <<>>
    /\ UNCHANGED <<args, environ, provider, java_files, modules, analysis_json,
                   converted_dir, conversions_json, events, error>>

\* A mutant: every module is converted.
ShouldConvertAlways(module) == TRUE

\* module and module.get('methods') (line 699)
ShouldConvert(module) == module.methods # <<>>

\* Lines 698-725: one pass of the conversion loop.  The read of the source
\* file succeeds, raises FileNotFoundError or raises something else; the
\* write of the output file succeeds or raises.
ConvertNextModule ==
    /\ pc = "convert"
    /\ LET i == position
           module == modules_to_convert[i]
           Log(kinds) == events \o [k \in 1..Len(kinds) |-> Event(i, kinds[k])]
       IN
       IF ~ShouldConvert(module)
       THEN UNCHANGED <<converted_files, converted_dir, events>>
       ELSE \E read \in {"ok", "FileNotFoundError", "PermissionError"} :
            IF read # "ok"
            THEN /\ events' = Log(<<read>>)
                 /\ UNCHANGED <<converted_files, converted_dir>>
            ELSE \E run \in ProviderRuns : \E write \in {"ok", "OSError"} :
                 LET nodejs_code == Convert(module.type, run)
                     output_path == module.name \o <<".js">>
                 IN  IF write # "ok"
                     THEN /\ events' = Log(<<"read">> \o ConvertCalls(run) \o <<write>>)
                          /\ UNCHANGED <<converted_files, converted_dir>>
                     ELSE /\ converted_dir' =
                                Append(converted_dir,
                                       [path |-> output_path, text |-> nodejs_code])
                          /\ converted_files' =
                                Append(converted_files,
                                       [original |-> module.name, type |-> module.type,
                                        outputPath |-> output_path])
                          /\ events' = Log(<<"read">> \o ConvertCalls(run)
                                           \o <<"write", "entry">>)
    /\ position' = position + 1
    /\ pc' = IF position = Len(modules_to_convert) THEN "manifest" ELSE "convert"
    /\ UNCHANGED <<args, environ, provider, defined, java_files, modules,
                   analysis_json, modules_to_convert, conversions_json, error>>

\* Lines 727-732: conversions.json is opened for writing, then its content
\* is built from converted_files, a name an analyze-only run never binds.
WriteManifest ==
    /\ pc = "manifest"
    /\ IF "converted_files" \in defined
       THEN /\ conversions_json' = Manifest(provider, converted_files)
            /\ pc' = "summary"
            /\ UNCHANGED error
       ELSE /\ conversions_json' = EmptyManifest
            /\ pc' = "crashed"
            /\ error' = "NameError"
    /\ UNCHANGED <<args, environ, provider, defined, java_files, modules,
                   analysis_json, modules_to_convert, position, converted_files,
                   converted_dir, events>>

\* Lines 734-745: the final summary prints len(modules), a name a
\* convert-only run never binds.
PrintSummary ==
    /\ pc = "summary"
    /\ IF "modules" \in defined
       THEN pc' = "done" /\ UNCHANGED error
       ELSE pc' = "crashed" /\ error' = "NameError"
    /\ UNCHANGED <<args, environ, provider, defined, java_files, modules,
                   analysis_json, modules_to_convert, position, converted_files,
                   converted_dir, conversions_json, events>>

(***************************************************************************)
(* Specifications                                                          *)
(***************************************************************************)
InitCategorize == CzInit /\ SlIdle /\ ExIdle /\ CvIdle /\ MainIdle
NextCategorize == CzCategorize /\ UNCHANGED <<slVars, exVars, cvVars, mainVars>>
SpecCategorize == InitCategorize /\ [][NextCategorize]_vars

InitSelect == SlInit /\ CzIdle /\ ExIdle /\ CvIdle /\ MainIdle
NextSelect == SlInitializeLlm /\ UNCHANGED <<czVars, exVars, cvVars, mainVars>>
SpecSelect == InitSelect /\ [][NextSelect]_vars

InitExtract == ExInit /\ CzIdle /\ SlIdle /\ CvIdle /\ MainIdle
NextExtract == ExAnalyzeFile /\ UNCHANGED <<czVars, slVars, cvVars, mainVars>>
SpecExtract == InitExtract /\ [][NextExtract]_vars

InitConvert == CvInit /\ CzIdle /\ SlIdle /\ ExIdle /\ MainIdle
NextConvert == CvConvert /\ UNCHANGED <<czVars, slVars, exVars, mainVars>>
SpecConvert == InitConvert /\ [][NextConvert]_vars

Init == MainInit /\ CzIdle /\ SlIdle /\ ExIdle /\ CvIdle
Next ==
    \/ InitializeProvider /\ UNCHANGED <<czVars, slVars, exVars, cvVars>>
    \/ Scan /\ UNCHANGED <<czVars, slVars, exVars, cvVars>>
    \/ AnalyzeNextFile /\ UNCHANGED <<czVars, slVars, exVars, cvVars>>
    \/ SaveAnalysis /\ UNCHANGED <<czVars, slVars, exVars, cvVars>>
    \/ LoadAnalysis /\ UNCHANGED <<czVars, slVars, exVars, cvVars>>
    \/ ConvertNextModule /\ UNCHANGED <<czVars, slVars, exVars, cvVars>>
    \/ WriteManifest /\ UNCHANGED <<czVars, slVars, exVars, cvVars>>
    \/ PrintSummary /\ UNCHANGED <<czVars, slVars, exVars, cvVars>>
Spec == Init /\ [][Next]_vars

(***************************************************************************)
(* Claims about analyze_file (SpecExtract)                                 *)
(***************************************************************************)
ExDone == exRecord # NoRecord

AllCallsRaise == \A i \in 1..Len(exResponses) : exResponses[i].kind = "raise"

\* C1 as stated: when the provider raises on every call of an extract, the
\* record is the degraded shape - "Analysis unavailable", no methods, no
\* dependencies, the name without its extension, path, category and line
\* count kept - for units under and over the large-file threshold alike.
C1_DegradedOnEveryPath ==
    (ExDone /\ AllCallsRaise) =>
        exRecord = [name |-> Stem(exUnit.name),
                    description |-> <<"Analysis unavailable">>,
                    methods |-> <<>>, dependencies |-> <<>>,
                    linesOfCode |-> exUnit.loc, filePath |-> exUnit.path,
                    type |-> exUnit.type]

\* C1 amended: when the provider raises on every call, the record has no
\* methods, no dependencies, the unit's path, category and line count, and
\* the file name with every ".java" removed; its description is "Analysis
\* unavailable" for a unit at or under the threshold and "Large module with
\* multiple components" for a unit over it.
C1_DegradedWhenProviderRaises ==
    (ExDone /\ AllCallsRaise) =>
        exRecord = [name |-> SelectSeq(exUnit.name, LAMBDA t : t # ".java"),
                    description |->
                        IF exUnit.contentLen <= 10000
                        THEN <<"Analysis unavailable">>
                        ELSE <<"Large module with multiple components">>,
                    methods |-> <<>>, dependencies |-> <<>>,
                    linesOfCode |-> exUnit.loc, filePath |-> exUnit.path,
                    type |-> exUnit.type]

C1_Witness ==
    /\ ExDone /\ AllCallsRaise
    /\ exUnit.contentLen > 10000 /\ Len(exResponses) = 5
    /\ exRecord.name # Stem(exUnit.name)
    /\ exRecord.description = <<"Large module with multiple components">>

\* C2: every method of the record an extract returns that has a complexity
\* has one of Low, Medium, High, on the whole-content path and on the chunked
\* path.
C2_ComplexityRestricted ==
    ExDone =>
        \A i \in 1..Len(exRecord.methods) :
            exRecord.methods[i].complexity # None =>
                exRecord.methods[i].complexity \in {"Low", "Medium", "High"}

\* C5: extracting a unit over the threshold makes at most 5 provider calls,
\* one per chunk among the first 5 chunks, in splitter order, whatever the
\* number of chunks and whichever calls fail.
C5_AtMostFiveChunkCalls ==
    (ExDone /\ exUnit.contentLen > 10000) =>
        /\ Len(exCalls) <= 5
        /\ Len(exCalls) <= exChunks
        /\ Len(exCalls) = 5 \/ Len(exCalls) = exChunks
        /\ \A i \in 1..Len(exCalls) : exCalls[i] = [kind |-> "chunk", chunk |-> i]

C5_Witness ==
    /\ ExDone /\ exUnit.contentLen > 10000
    /\ exChunks > 5 /\ Len(exCalls) = 5
    /\ exResponses[2].kind = "raise" /\ exResponses[5].kind = "json"

\* C6: a unit whose content length is at most 10000 is analyzed by exactly
\* one provider call on the whole content, the splitter not invoked; a unit
\* of 10001 characters or more is analyzed by chunk calls only.
C6_ThresholdBoundary ==
    ExDone =>
        /\ exUnit.contentLen <= 10000 =>
              exCalls = <<[kind |-> "whole", chunk |-> 0]>> /\ exChunks = 0
        /\ exUnit.contentLen >= 10001 =>
              /\ exChunks >= 1 /\ Len(exCalls) >= 1
              /\ \A i \in 1..Len(exCalls) : exCalls[i].kind = "chunk"

C6_Witness ==
    /\ ExDone /\ exUnit.contentLen = 10000
    /\ exCalls = <<[kind |-> "whole", chunk |-> 0]>>
    /\ exRecord.methods # <<>>

(***************************************************************************)
(* Claims about _categorize (SpecCategorize)                               *)
(***************************************************************************)
PriorityOrder == <<"Controller", "Service", "DAO", "Model", "DTO",
                   "Configuration", "Exception", "Component">>

\* The rule of each category: a file-name substring or a content marker.
RuleMatches(cat, filename, content) ==
    LET f == Range(filename) IN
    CASE cat = "Controller" ->
            In("Controller", f) \/ In("@Controller", content)
            \/ In("@RestController", content)
      [] cat = "Service" -> In("Service", f) \/ In("@Service", content)
      [] cat = "DAO" ->
            In("Repository", f) \/ In("DAO", f) \/ In("@Repository", content)
      [] cat = "Model" -> In("Model", f) \/ In("Entity", f) \/ In("@Entity", content)
      [] cat = "DTO" -> In("DTO", f)
      [] cat = "Configuration" -> In("Config", f) \/ In("@Configuration", content)
      [] cat = "Exception" -> In("Exception", f)
      [] cat = "Component" -> In("@Component", content)

\* C7: categorize is total; it returns the first category of the fixed order
\* whose rule matches and Util when none does, so a file matching the rules of
\* two categories is classified as the earlier one.
C7_FirstMatchWins ==
    czType # None =>
        LET hits == {i \in 1..Len(PriorityOrder) :
                        RuleMatches(PriorityOrder[i], czName, czContent)}
        IN  /\ czType \in Range(PriorityOrder) \cup {"Util"}
            /\ hits = {} => czType = "Util"
            /\ hits # {} =>
                 \E i \in hits : /\ czType = PriorityOrder[i]
                                 /\ \A j \in hits : i <= j

C7_Witness ==
    /\ czName = <<"User", "Controller", ".java">>
    /\ "@Entity" \in czContent
    /\ RuleMatches("Model", czName, czContent)
    /\ czType = "Controller"

(***************************************************************************)
(* Claims about initialize_llm (SpecSelect)                                *)
(***************************************************************************)
SlDone == slResult.kind # "none"

CredentialPresent(name) ==
    CASE name = "Gemini" ->
            slEnv["GOOGLE_API_KEY"] = "set" \/ slEnv["GEMINI_API_KEY"] = "set"
      [] name = "Anthropic" -> slEnv["ANTHROPIC_API_KEY"] = "set"
      [] name = "OpenAI" -> slEnv["OPENAI_API_KEY"] = "set"

\* C8: with no explicit provider, select returns the first of Gemini,
\* Anthropic, OpenAI whose credential is present and whose client initializes
\* without error, passing over the others, and raises a configuration error
\* listing the credential variables only when no candidate succeeds.
C8_FallbackPassesOverFailures ==
    (SlDone /\ slProvider = None) =>
        LET order == <<"Gemini", "Anthropic", "OpenAI">>
            usable == {i \in 1..3 : CredentialPresent(order[i])
                                    /\ slOutcome[order[i]] = "ok"}
        IN  /\ usable # {} =>
                 \E i \in usable : /\ \A j \in usable : i <= j
                                   /\ slResult.kind = "return"
                                   /\ slResult.name = order[i]
            /\ usable = {} =>
                 /\ slResult.kind = "raise" /\ slResult.exc = "ValueError"
                 /\ slResult.keys = {"GOOGLE_API_KEY", "ANTHROPIC_API_KEY",
                                     "OPENAI_API_KEY"}

\* C9: with an explicit provider, select returns that provider's client and
\* name or raises a ValueError whose message names the requested provider; it
\* never returns another provider's client.
C9_ExplicitProviderOnly ==
    (SlDone /\ slProvider # None /\ slProvider # "") =>
        LET wanted == CASE slProvider = "google" -> "Gemini"
                        [] slProvider = "anthropic" -> "Anthropic"
                        [] slProvider = "openai" -> "OpenAI"
                        [] OTHER -> None
        IN  \/ /\ slResult.kind = "return"
               /\ wanted # None
               /\ slResult.llm = wanted /\ slResult.name = wanted
            \/ /\ slResult.kind = "raise"
               /\ slResult.exc = "ValueError"
               /\ slResult.about = slProvider

C9_Witness ==
    /\ SlDone /\ slProvider = "anthropic"
    /\ slEnv["ANTHROPIC_API_KEY"] = "unset"
    /\ slEnv["GOOGLE_API_KEY"] = "set" /\ slOutcome["Gemini"] = "ok"
    /\ slResult.kind = "raise" /\ slResult.about = "anthropic"

(***************************************************************************)
(* Claims about main (Spec)                                                *)
(***************************************************************************)
\* C3: the analysis loop never aborts on a unit: it yields one record per
\* scanned unit, in scanner order, record i carrying the path of unit i,
\* whatever the provider raises or returns.
C3_OneRecordPerUnit ==
    /\ pc = "analyze" => Len(modules) < Len(java_files)
    /\ Len(modules) <= Len(java_files)
    /\ \A i \in 1..Len(modules) : modules[i].filePath = java_files[i].path
    /\ ("modules" \in defined /\ pc # "analyze") => Len(modules) = Len(java_files)
    /\ analysis_json.exists /\ args.stage # "convert" =>
          /\ Len(analysis_json.modules) = Len(java_files)
          /\ \A i \in 1..Len(java_files) :
                analysis_json.modules[i].filePath = java_files[i].path

C3_Witness ==
    /\ pc = "overview" /\ Len(java_files) >= 2
    /\ modules[1].description = <<"Analysis unavailable">>
    /\ modules[1].filePath = java_files[1].path
    /\ modules[2].methods # <<>>

EntryEvents == SelectSeq(events, LAMBDA e : e.kind = "entry")
WriteEvents == SelectSeq(events, LAMBDA e : e.kind = "write")

\* C4: a record with an empty methods list is never submitted to the
\* converter, has no output file written for it and gets no ConversionResult
\* in the manifest.
C4_EmptyMethodsSkipped ==
    /\ \A k \in 1..Len(events) : modules_to_convert[events[k].module].methods # <<>>
    /\ Len(converted_dir) = Len(WriteEvents)
    /\ Len(converted_files) = Len(EntryEvents)
    /\ \A j \in 1..Len(converted_files) :
          LET m == modules_to_convert[EntryEvents[j].module] IN
          m.methods # <<>> /\ converted_files[j].original = m.name
    /\ conversions_json.complete => conversions_json.conversions = converted_files

C4_Witness ==
    /\ pc = "summary"
    /\ \E i \in 1..Len(modules_to_convert) :
          /\ modules_to_convert[i].description = <<"Analysis unavailable">>
          /\ modules_to_convert[i].methods = <<>>
    /\ Len(conversions_json.conversions) = 1
    /\ Len(modules_to_convert) >= 2

\* C10: convert never raises; an exception in Stage A or Stage B yields a
\* stub that embeds the category and a truncated error message, and the loop
\* goes on with the next unit.
C10_StubEmbedsTruncatedError ==
    /\ \A k \in 1..Len(events) : events[k].kind = "stageA" => k < Len(events)
    /\ pc = "crashed" => error = "NameError" \/ events = <<>>
    /\ \A k \in 1..Len(converted_dir) :
          converted_dir[k].text.kind = "stub" =>
              /\ converted_dir[k].text.category \in Range(PriorityOrder) \cup {"Util"}
              /\ converted_dir[k].text.errLen <= 100

Ended == pc \in {"done", "returned", "crashed"}

\* C11: a run restricted to one stage completes normally.  With a usable
\* provider, an analyze-only run over a non-empty scan writes analysis.json
\* and ends without an uncaught error and without a conversion call; a
\* convert-only run with an analysis.json in place loads it, runs no analysis,
\* writes the manifest and ends without an uncaught error.
C11_SingleStageRunCompletes ==
    /\ (Ended /\ args.stage = "analyze" /\ provider # None /\ java_files # <<>>) =>
          /\ pc = "done" /\ error = None
          /\ analysis_json.exists /\ analysis_json.modules = modules
          /\ events = <<>>
    /\ (Ended /\ args.stage = "convert" /\ provider # None /\ analysis_json.exists) =>
          /\ pc = "done" /\ error = None
          /\ modules_to_convert = analysis_json.modules
          /\ "modules" \notin defined /\ modules = <<>>
          /\ conversions_json.complete


\* The positions of the delimiters of a Stage-B response and the tokens
\* between the first two.
CvDone == cvResult # NoResult
Cleaned == cvResult.kind = "code"
FencesOf(raw) == {i \in 1..Len(raw) : raw[i] = Fence}
HasBlock(raw) == Cardinality(FencesOf(raw)) >= 2
OpenOf(raw) == CHOOSE i \in FencesOf(raw) : \A j \in FencesOf(raw) : i <= j
CloseOf(raw) ==
    CHOOSE i \in FencesOf(raw) : i > OpenOf(raw) /\ \A j \in FencesOf(raw) : j > OpenOf(raw) => i <= j
InnerOf(raw) == SubSeq(raw, OpenOf(raw) + 1, CloseOf(raw) - 1)
LanguageTags == {"javascript", "js"}
IsTrimOf(t, u) ==
    /\ (t # <<>> => t[1] \notin Whitespace /\ t[Len(t)] \notin Whitespace)
    /\ \E i \in 1..(Len(u) + 1) :
          /\ i + Len(t) - 1 <= Len(u)
          /\ t = SubSeq(u, i, i + Len(t) - 1)
          /\ \A k \in 1..Len(u) : (k < i \/ k > i + Len(t) - 1) => u[k] \in Whitespace

\* C12 as stated: when the response holds a fenced block, the result is
\* the body of the first block, trimmed, without the delimiters and without
\* the language tag, whatever the tag is; with no complete block the result
\* is the raw response.
C12_AnyTagRemoved ==
    (CvDone /\ Cleaned) =>
        IF HasBlock(cvRun.raw)
        THEN LET inner == InnerOf(cvRun.raw)
                 tagged == inner # <<>> /\ inner[1] \in LanguageTags
                 body == IF tagged THEN Tail(inner) ELSE inner
             IN  /\ IsTrimOf(cvResult.body, body)
                 /\ \A k \in 1..Len(cvResult.body) : cvResult.body[k] # Fence
        ELSE cvResult.body = cvRun.raw

\* C12 amended: the only tag removed is `javascript` directly after the
\* opening delimiter; anything else there is part of the body.  The result
\* is that body with leading and trailing whitespace removed and holds no
\* delimiter; with no complete block the result is the raw response.
C12_JavascriptTagRemoved ==
    (CvDone /\ Cleaned) =>
        IF HasBlock(cvRun.raw)
        THEN LET inner == InnerOf(cvRun.raw)
                 tagged == inner # <<>> /\ inner[1] = "javascript"
                 body == IF tagged THEN Tail(inner) ELSE inner
             IN  /\ IsTrimOf(cvResult.body, body)
                 /\ \A k \in 1..Len(cvResult.body) : cvResult.body[k] # Fence
        ELSE cvResult.body = cvRun.raw

\* A block tagged `js` with whitespace around its code: the result starts
\* with the tag and the whitespace after the code is gone.
C12_Witness ==
    /\ CvDone /\ Cleaned
    /\ cvRun.raw = <<Fence, "js", "code", "\n">> \o <<Fence>>
    /\ cvResult.body = <<"js", "code">>

\* A chunk response that can be parsed and merged as a whole: a JSON object
\* whose methods and dependencies, where present, are lists, whose
\* dependencies are all hashable and whose description, where present, is a
\* string.
Mergeable(r) ==
    /\ r.kind = "json"
    /\ r.methods.present => r.methods.typed
    /\ r.dependencies.present =>
          r.dependencies.typed /\ Unhashable \notin Range(r.dependencies.items)
    /\ r.description.present => r.description.typed
RECURSIVE KeptMethods(_, _)
KeptMethods(k, rs) ==
    IF k = 0 THEN <<>>
    ELSE KeptMethods(k - 1, rs) \o (IF Mergeable(rs[k]) THEN rs[k].methods.items ELSE <<>>)
RECURSIVE KeptDescriptions(_, _)
KeptDescriptions(k, rs) ==
    IF k = 0 THEN <<>>
    ELSE KeptDescriptions(k - 1, rs)
           \o (IF Mergeable(rs[k]) /\ rs[k].description.present
               THEN rs[k].description.items ELSE <<>>)
KeptDependencies(rs) ==
    UNION {Range(rs[k].dependencies.items) : k \in {j \in 1..Len(rs) : Mergeable(rs[j])}}
SomeDescription(rs) ==
    \E k \in 1..Len(rs) : Mergeable(rs[k]) /\ rs[k].description.present

\* C13: on the chunked path a chunk whose call fails or whose response
\* cannot be parsed and merged leaves nothing in the aggregates, every
\* other analyzed chunk's methods (in chunk order, duplicates kept),
\* dependencies (as a set) and description are in the record, and the
\* record is not the degraded one.
C13_FailedChunkOmittedWhole ==
    (ExDone /\ IsLargeFile(exUnit)) =>
        /\ exRecord.methods = KeptMethods(Len(exResponses), exResponses)
        /\ Range(exRecord.dependencies) = KeptDependencies(exResponses)
        /\ Len(exRecord.dependencies) = Cardinality(KeptDependencies(exResponses))
        /\ exRecord.description =
              IF SomeDescription(exResponses)
              THEN KeptDescriptions(Len(exResponses), exResponses)
              ELSE DescLargeModule

\* What happened to module i of the artifact during the conversion loop.
Happened(i, kind) == \E k \in 1..Len(events) : events[k] = Event(i, kind)
ReadAndWritten(i) ==
    /\ modules_to_convert[i].methods # <<>>
    /\ Happened(i, "read") /\ Happened(i, "write")
ConversionResult(m) ==
    [original |-> m.name, type |-> m.type, outputPath |-> m.name \o <<".js">>]
RECURSIVE ExpectedConversions(_)
ExpectedConversions(k) ==
    IF k = 0 THEN <<>>
    ELSE ExpectedConversions(k - 1)
           \o (IF ReadAndWritten(k) THEN <<ConversionResult(modules_to_convert[k])>>
               ELSE <<>>)

\* C14: when the manifest is written its conversions list holds, in
\* artifact order, exactly one ConversionResult for each module with a
\* non-empty methods list whose source was read and whose output file was
\* written, stubs included; a module skipped for empty methods or for a
\* missing source file has none, and every later module with methods is
\* still attempted.
C14_ManifestContent ==
    conversions_json.complete =>
        /\ conversions_json.conversions = ExpectedConversions(Len(modules_to_convert))
        /\ Len(converted_dir) = Len(conversions_json.conversions)
        /\ \A k \in 1..Len(converted_dir) :
              converted_dir[k].path = conversions_json.conversions[k].outputPath
        /\ \A i \in 1..Len(modules_to_convert) :
              /\ (modules_to_convert[i].methods = <<>> \/ Happened(i, "FileNotFoundError"))
                    => ~Happened(i, "entry") /\ ~Happened(i, "write")
              /\ modules_to_convert[i].methods # <<>> =>
                    Happened(i, "read") \/ Happened(i, "FileNotFoundError")
                       \/ Happened(i, "PermissionError")

\* The first module's source is missing, the second is converted to a stub
\* that is written and listed.
C14_Witness ==
    /\ conversions_json.complete
    /\ Len(modules_to_convert) = 2
    /\ Happened(1, "FileNotFoundError")
    /\ Len(converted_dir) = 1 /\ converted_dir[1].text.kind = "stub"
    /\ conversions_json.conversions = <<ConversionResult(modules_to_convert[2])>>

\* The fixed table of target-framework hints and the generic hint.
HintTable ==
    [c \in {"Controller", "Service", "DAO", "Model", "DTO", "Configuration",
            "Exception", "Component", "Util"} |->
        CASE c = "Controller" -> "Express.js with routing and middleware"
          [] c = "Service" -> "ES6 class with business logic"
          [] c = "DAO" -> "Sequelize ORM for database access"
          [] c = "Model" -> "ES6 class for data structure"
          [] c = "DTO" -> "Plain JavaScript object for data transfer"
          [] c = "Configuration" -> "Module exporting configuration objects"
          [] c = "Exception" -> "Custom Error class"
          [] c = "Component" -> "ES6 module or class"
          [] c = "Util" -> "Collection of utility functions"]
GenericHint == "Node.js patterns"

\* C15: in convert the Stage-A prompt is sent first, with the category and
\* the source; the Stage-B prompt is sent only when Stage A returned and
\* embeds exactly the Stage-A output, the source, the category and the
\* category's hint, the generic one for a category outside the table; a
\* convert that returns code made exactly these two calls, and a failed
\* Stage A is the only call.
C15_TwoStageOrdering ==
    CvDone =>
        /\ Len(cvCalls) \in {1, 2}
        /\ cvCalls[1].template = "structure"
        /\ cvCalls[1].module_type = cvType /\ cvCalls[1].java_code = cvCode
        /\ cvRun.a = "raise" => Len(cvCalls) = 1 /\ cvResult.kind = "stub"
        /\ cvRun.a = "ok" =>
              /\ Len(cvCalls) = 2
              /\ cvCalls[2].template = "conversion"
              /\ cvCalls[2].structure = cvRun.structure
              /\ cvCalls[2].java_code = cvCode
              /\ cvCalls[2].module_type = cvType
              /\ cvCalls[2].framework =
                    IF cvType \in DOMAIN HintTable THEN HintTable[cvType] ELSE GenericHint
        /\ Cleaned => Len(cvCalls) = 2

\* A successful convert of a category outside the table: two calls, the
\* second with the Stage-A text and the generic hint.
C15_Witness ==
    /\ CvDone /\ Cleaned
    /\ cvType \notin DOMAIN HintTable
    /\ cvRun.structure = "structure 2"
    /\ Len(cvCalls) = 2
    /\ cvCalls[2].structure = "structure 2" /\ cvCalls[2].framework = GenericHint
====
